---- MODULE Spec2Model ----
(***************************************************************************)
(* Model of "Lesson 2/Task-1.ts": the prototype-based event emitter        *)
(* (lines 1-99) and the fixed-point Currency class with its parse          *)
(* function (lines 100-328).                                               *)
(*                                                                         *)
(* Numbers are exact rationals extended with NaN, +Infinity and -Infinity. *)
(* Binary floating-point representation error and the sign of zero are not *)
(* modelled: every decimal literal denotes exactly its decimal value.      *)
(* Strings are sequences of one-character strings.                         *)
(***************************************************************************)
EXTENDS Integers, Sequences, FiniteSets

VARIABLES
  strictMode,   \* whether the build runs plain functions with this = undefined
  self,         \* the Currency object the next method call is made on (the receiver)
  ret,          \* the Currency objects returned by the last call, in order
  last,         \* the last call: its name, operand, outcome and string/number result
  events,       \* emitter.events: type -> array of handlers
  calls,        \* the on/off calls made on the emitter so far, in order
  fired         \* the last trigger: its event, args, what was invoked, what it returned

vars == <<strictMode, self, ret, last, events, calls, fired>>
curVars == <<strictMode, self, ret, last>>
emVars == <<events, calls, fired>>

(***************************************************************************)
(* Bounds of the model.                                                    *)
(***************************************************************************)
MaxCount == 3        \* largest count handed to distribute
MaxAmount == 8       \* largest |intValue| of an object the calls of Spec go on with
MaxStrLen == 3       \* longest input string that is enumerated
MaxMilli == 30       \* numeric inputs to parse are m / 1000 with |m| <= MaxMilli
MaxCalls == 3        \* on and off calls made on the emitter in one behaviour

(***************************************************************************)
(* Numbers.                                                                *)
(***************************************************************************)
Abs(x) == IF x < 0 THEN -x ELSE x

\* F applied to the value of x: a local constant that is computed once.
Let(x, F(_)) == F(x)

RECURSIVE GCD(_, _)
GCD(a, b) == IF b = 0 THEN a ELSE GCD(b, a % b)

\* The finite number n / d in lowest terms with a positive denominator.
Fin(n, d) ==
  LET s == IF d < 0 THEN -1 ELSE 1
      g == GCD(Abs(n), Abs(d))
  IN  [n |-> (s * n) \div g, d |-> (s * d) \div g, k |-> "fin"]

Int2Num(n) == [n |-> n, d |-> 1, k |-> "fin"]
NaN == [n |-> 0, d |-> 1, k |-> "nan"]
PInf == [n |-> 1, d |-> 1, k |-> "inf"]
NInf == [n |-> -1, d |-> 1, k |-> "inf"]
Undefined == [n |-> 0, d |-> 1, k |-> "undef"]

IsFin(x) == x.k = "fin"
IsInteger(x) == x.k = "fin" /\ x.d = 1
Sgn(x) == IF x.n > 0 THEN 1 ELSE IF x.n < 0 THEN -1 ELSE 0
Inf(s) == IF s < 0 THEN NInf ELSE PInf

\* ToNumber of a value that is already a number or undefined.
ToNum(x) == IF x.k = "undef" THEN NaN ELSE x

\* a * b
JMul(a0, b0) ==
  LET a == ToNum(a0)
      b == ToNum(b0)
  IN  IF a.k = "nan" \/ b.k = "nan" THEN NaN
      ELSE IF a.k = "inf" \/ b.k = "inf"
        THEN IF Sgn(a) = 0 \/ Sgn(b) = 0 THEN NaN ELSE Inf(Sgn(a) * Sgn(b))
      ELSE Fin(a.n * b.n, a.d * b.d)

\* a / b (a zero divisor counts as +0)
JDiv(a0, b0) ==
  LET a == ToNum(a0)
      b == ToNum(b0)
  IN  IF a.k = "nan" \/ b.k = "nan" THEN NaN
      ELSE IF a.k = "inf"
        THEN IF b.k = "inf" THEN NaN ELSE Inf(Sgn(a) * (IF Sgn(b) < 0 THEN -1 ELSE 1))
      ELSE IF b.k = "inf" THEN Int2Num(0)
      ELSE IF b.n = 0 THEN (IF a.n = 0 THEN NaN ELSE Inf(Sgn(a)))
      ELSE Fin(a.n * b.d, a.d * b.n)

\* a + b
JAdd(a0, b0) ==
  LET a == ToNum(a0)
      b == ToNum(b0)
  IN  IF a.k = "nan" \/ b.k = "nan" THEN NaN
      ELSE IF a.k = "inf" /\ b.k = "inf" THEN (IF Sgn(a) = Sgn(b) THEN a ELSE NaN)
      ELSE IF a.k = "inf" THEN a
      ELSE IF b.k = "inf" THEN b
      ELSE Fin(a.n * b.d + b.n * a.d, a.d * b.d)

JNeg(a) == IF a.k = "fin" THEN Fin(-a.n, a.d) ELSE IF a.k = "inf" THEN Inf(-Sgn(a)) ELSE a

\* a - b
JSub(a, b) == JAdd(a, JNeg(ToNum(b)))

\* a >= 0
JGeqZero(a) == a.k # "nan" /\ a.k # "undef" /\ a.n >= 0

\* a > 0
JGtZero(a) == a.k # "nan" /\ a.k # "undef" /\ a.n > 0

\* The truthiness of a number: 0, NaN and undefined are falsy.
Truthy(a) == a.k = "inf" \/ (a.k = "fin" /\ a.n # 0)

MathFloor(v) == IF v.k = "fin" THEN Int2Num(v.n \div v.d) ELSE v
MathCeil(v) == IF v.k = "fin" THEN Int2Num(-((-v.n) \div v.d)) ELSE v
MathAbs(v) == IF v.k = "undef" THEN NaN ELSE [v EXCEPT !.n = Abs(v.n)]

\* Math.round: the nearest integer, a half going towards +Infinity.
MathRound(v) ==
  LET ip == v.n \div v.d
      rem == v.n - ip * v.d
  IN  IF v.k = "fin" THEN Int2Num(ip + (IF 2 * rem >= v.d THEN 1 ELSE 0)) ELSE v

\* +v.toFixed(f): v to f fractional digits, a half going away from zero.
ToFixedNum(v, f) ==
  IF v.k = "fin"
  THEN Let(JAdd(Int2Num(Abs(v.n) \div v.d),
                Fin((2 * (Abs(v.n) % v.d) * 10^f + v.d) \div (2 * v.d), 10^f)),
           LAMBDA mag : IF v.n < 0 THEN JNeg(mag) ELSE mag)
  ELSE ToNum(v)

round(v) == MathRound(v)

pow(p) == Int2Num(10^p)

rounding(value, increment) == JMul(round(JDiv(value, increment)), increment)

(***************************************************************************)
(* Strings.                                                                *)
(***************************************************************************)
DigitChars == <<"0", "1", "2", "3", "4", "5", "6", "7", "8", "9">>
Digits == {DigitChars[i] : i \in 1..10}
DigitVal(c) == (CHOOSE i \in 1..10 : DigitChars[i] = c) - 1

RECURSIVE DigitsVal(_)
DigitsVal(s) ==
  IF s = <<>> THEN 0
  ELSE 10 * DigitsVal(SubSeq(s, 1, Len(s) - 1)) + DigitVal(s[Len(s)])

RECURSIVE IntToDigits(_)
IntToDigits(n) ==
  IF n < 10 THEN <<DigitChars[n + 1]>>
  ELSE IntToDigits(n \div 10) \o <<DigitChars[(n % 10) + 1]>>

RECURSIVE Zeros(_)
Zeros(n) == IF n <= 0 THEN <<>> ELSE <<"0">> \o Zeros(n - 1)

RECURSIVE Filter(_, _)
Filter(s, keep) ==
  IF s = <<>> THEN <<>>
  ELSE (IF Head(s) \in keep THEN <<Head(s)>> ELSE <<>>) \o Filter(Tail(s), keep)

InfinityStr == <<"I", "n", "f", "i", "n", "i", "t", "y">>
NaNStr == <<"N", "a", "N">>

\* Number(s) for a string without white space, exponent, radix prefix or "+":
\* the empty string is 0, [-]digits[.digits] and [-].digits are decimal literals,
\* [-]Infinity is infinite and anything else is NaN.
Number(s) ==
  LET neg == s # <<>> /\ s[1] = "-"
      r == IF neg THEN Tail(s) ELSE s
      sg == IF neg THEN -1 ELSE 1
      dots == {i \in 1..Len(r) : r[i] = "."}
      dot == CHOOSE i \in dots : TRUE
      ip == SubSeq(r, 1, dot - 1)
      fp == SubSeq(r, dot + 1, Len(r))
  IN  IF s = <<>> THEN Int2Num(0)
      ELSE IF r = InfinityStr THEN Inf(sg)
      ELSE IF \E i \in 1..Len(r) : r[i] \notin Digits \cup {"."} THEN NaN
      ELSE IF Cardinality(dots) > 1 THEN NaN
      ELSE IF dots = {} THEN (IF r = <<>> THEN NaN ELSE Int2Num(sg * DigitsVal(r)))
      ELSE IF Len(ip) + Len(fp) = 0 THEN NaN
      ELSE Fin(sg * (DigitsVal(ip) * 10^Len(fp) + DigitsVal(fp)), 10^Len(fp))

\* x.toFixed(f) as a string.
toFixed(x, f) ==
  LET whole == Abs(x.n) \div x.d
      rem == Abs(x.n) - whole * x.d
      fr == (2 * rem * 10^f + x.d) \div (2 * x.d)
      carry == IF fr = 10^f THEN 1 ELSE 0
      ip == IntToDigits(whole + carry)
      fd == IntToDigits(fr - carry * 10^f)
      fp == Zeros(f - Len(fd)) \o fd
  IN  IF x.k = "nan" \/ x.k = "undef" THEN NaNStr
      ELSE IF x.k = "inf" THEN (IF x.n < 0 THEN <<"-">> ELSE <<>>) \o InfinityStr
      ELSE (IF x.n < 0 THEN <<"-">> ELSE <<>>) \o ip
             \o (IF f > 0 THEN <<".">> \o fp ELSE <<>>)

\* s.replace(/\((.*)\)/, '-$1'): the first "(" that has a ")" after it, up to the
\* last ")", becomes "-" followed by what stood between them.
ReplaceParens(s) ==
  LET closes == {j \in 1..Len(s) : s[j] = ")"}
      j == CHOOSE x \in closes : \A y \in closes : y <= x
      opens == {i \in 1..Len(s) : s[i] = "(" /\ \E c \in closes : c > i}
      i == CHOOSE x \in opens : \A y \in opens : x <= y
  IN  IF opens = {} THEN s
      ELSE SubSeq(s, 1, i - 1) \o <<"-">> \o SubSeq(s, i + 1, j - 1)
             \o SubSeq(s, j + 1, Len(s))

\* s.replace(new RegExp('[^-\\d' + decimal + ']', 'g'), '')
StripNonNumeric(s, decimal) == Filter(s, Digits \cup {"-", decimal})

\* s.replace(new RegExp('\\' + decimal, 'g'), '.')
ConvertDecimal(s, decimal) == [i \in 1..Len(s) |-> IF s[i] = decimal THEN "." ELSE s[i]]

\* s.replace(c, r) for a one-character pattern c and a replacement r that holds
\* no "$" pattern: the first c becomes r.
ReplaceFirst(s, c, r) ==
  LET at == {i \in 1..Len(s) : s[i] = c}
      i == CHOOSE x \in at : \A y \in at : x <= y
  IN  IF at = {} THEN s ELSE SubSeq(s, 1, i - 1) \o r \o SubSeq(s, i + 1, Len(s))

\* s.split('.')
RECURSIVE SplitDot(_)
SplitDot(s) ==
  LET at == {i \in 1..Len(s) : s[i] = "."}
      i == CHOOSE x \in at : \A y \in at : x <= y
  IN  IF at = {} THEN <<s>>
      ELSE <<SubSeq(s, 1, i - 1)>> \o SplitDot(SubSeq(s, i + 1, Len(s)))

(***************************************************************************)
(* Settings.                                                               *)
(***************************************************************************)
defaults ==
  [ decimal |-> ".", symbol |-> <<"$">>, separator |-> ",",
    formatWithSymbol |-> FALSE, errorOnInvalid |-> FALSE, precision |-> 2,
    pattern |-> <<"!", "#">>, negativePattern |-> <<"-", "!", "#">> ]

\* Object.assign({}, a, b): b's own properties over a's.
Assign(a, b) ==
  [key \in DOMAIN a \cup DOMAIN b |-> IF key \in DOMAIN b THEN b[key] ELSE a[key]]

NoOpts == [x \in {} |-> TRUE]

Has(o, key) == key \in DOMAIN o

(***************************************************************************)
(* Values handed to the constructor and the methods: a number, a string, a *)
(* Currency object, or undefined.                                          *)
(***************************************************************************)
NoObject ==
  [ value |-> Undefined, opts |-> NoOpts, intValue |-> Undefined,
    _settings |-> NoOpts, _precision |-> Undefined ]

NumberV(x) == [t |-> "number", num |-> x, str |-> <<>>, obj |-> NoObject]
StringV(s) == [t |-> "string", num |-> Undefined, str |-> s, obj |-> NoObject]
CurrencyV(c) == [t |-> "Currency", num |-> Undefined, str |-> <<>>, obj |-> c]
UndefinedV == [t |-> "undefined", num |-> Undefined, str |-> <<>>, obj |-> NoObject]

Returned(x) == [v |-> x, thrown |-> "none"]
Thrown(e) == [v |-> Undefined, thrown |-> e]

\* The value of "this" inside parse, which is called as a plain function:
\* undefined in strict code, the global object otherwise.
ParseThis(strict) == IF strict THEN "undefined" ELSE "globalThis"

\* this.value inside parse
ParseThisValue(strict) ==
  IF ParseThis(strict) = "undefined" THEN Thrown("TypeError") ELSE Returned(Undefined)

\* parse without the fallback "v = v || 0".
OrZeroMissing(v) == v

\* v || 0
OrZero(v) == IF Truthy(v) THEN v ELSE Int2Num(0)

parse(value, opts, useRounding, strict) ==
  LET decimal == opts.decimal
      errorOnInvalid == opts.errorOnInvalid
      precision == pow(opts.precision)
      isNumber == value.t = "number"
      \* v as it stands before "Handle additional decimal", or the error thrown
      scaled ==
        IF isNumber \/ value.t = "Currency"
        THEN IF isNumber THEN Returned(JMul(value.num, precision))
             ELSE IF ParseThisValue(strict).thrown # "none" THEN ParseThisValue(strict)
             ELSE Returned(JMul(ParseThisValue(strict).v, precision))
        ELSE IF value.t = "string"
        THEN Returned(OrZero(JMul(Number(ConvertDecimal(
                         StripNonNumeric(ReplaceParens(value.str), decimal), decimal)),
                       precision)))
        ELSE IF errorOnInvalid THEN Thrown("Invalid Input")
        ELSE Returned(Int2Num(0))
  IN  Let(scaled,
          LAMBDA r :
            IF r.thrown # "none" THEN r
            ELSE Returned(Let(ToFixedNum(r.v, 4),
                              LAMBDA v : IF useRounding THEN round(v) ELSE v)))

(***************************************************************************)
(* class Currency.                                                         *)
(***************************************************************************)
\* new Currency(value, opts); opts = NoOpts stands for a call without options.
Currency(value, opts, strict) ==
  LET thisValue == IF value.t # "Currency" THEN value ELSE NumberV(value.obj.value)
      settings == Assign(defaults, opts)
      precision == pow(settings.precision)
      increment == IF Has(settings, "increment") /\ Truthy(settings.increment)
                   THEN settings.increment
                   ELSE JDiv(Int2Num(1), precision)
      groups == IF Has(settings, "useVedic") /\ settings.useVedic
                THEN "vedicRegex" ELSE "groupRegex"
  IN  Let(parse(thisValue, settings, TRUE, strict),
          LAMBDA v :
            IF v.thrown # "none" THEN [v |-> NoObject, thrown |-> v.thrown]
            ELSE Returned(
                   [ value |-> JDiv(v.v, precision),
                     opts |-> opts,
                     intValue |-> v.v,
                     _settings |-> Assign(settings,
                                          [increment |-> increment, groups |-> groups]),
                     _precision |-> precision ]))

\* What a method call leaves behind: the error thrown (or "none"), the receiver
\* after the call, the Currency objects returned and the string or number returned.
Outcome(thrown, this, objs, out) ==
  [self |-> this, ret |-> objs, thrown |-> thrown, out |-> out]

\* The outcome of a method that ends with "return new Currency(x, _settings)".
ReturnNew(this, c) ==
  IF c.thrown # "none" THEN Outcome(c.thrown, this, <<>>, UndefinedV)
  ELSE Outcome("none", this, <<c.v>>, UndefinedV)

\* An add that also stores the sum in its receiver.
addInPlace(this, number, strict) ==
  Let(parse(number, this._settings, TRUE, strict),
      LAMBDA p :
        IF p.thrown # "none" THEN Outcome(p.thrown, this, <<>>, UndefinedV)
        ELSE ReturnNew([this EXCEPT !.intValue = JAdd(@, p.v)],
                       Currency(NumberV(JDiv(JAdd(this.intValue, p.v), this._precision)),
                                this._settings, strict)))

add(this, number, strict) ==
  Let(parse(number, this._settings, TRUE, strict),
      LAMBDA p :
        IF p.thrown # "none" THEN Outcome(p.thrown, this, <<>>, UndefinedV)
        ELSE ReturnNew(this, Currency(NumberV(JDiv(JAdd(this.intValue, p.v),
                                                   this._precision)),
                                      this._settings, strict)))

subtract(this, number, strict) ==
  Let(parse(number, this._settings, TRUE, strict),
      LAMBDA p :
        IF p.thrown # "none" THEN Outcome(p.thrown, this, <<>>, UndefinedV)
        ELSE ReturnNew(this, Currency(NumberV(JDiv(JSub(this.intValue, p.v),
                                                   this._precision)),
                                      this._settings, strict)))

toString(this) ==
  toFixed(rounding(JDiv(this.intValue, this._precision), this._settings.increment),
          this._settings.precision)

\* ToNumber(v), as the operator * applies it to its right operand; an object is
\* converted through its toString method.
ToNumberV(v) ==
  IF v.t = "number" THEN v.num
  ELSE IF v.t = "string" THEN Number(v.str)
  ELSE IF v.t = "Currency" THEN Number(toString(v.obj))
  ELSE NaN

multiply(this, number, strict) ==
  ReturnNew(this, Currency(NumberV(JDiv(JMul(this.intValue, ToNumberV(number)),
                                        pow(this._settings.precision))),
                           this._settings, strict))

divide(this, number, strict) ==
  Let(parse(number, this._settings, FALSE, strict),
      LAMBDA p :
        IF p.thrown # "none" THEN Outcome(p.thrown, this, <<>>, UndefinedV)
        ELSE ReturnNew(this, Currency(NumberV(JDiv(this.intValue, p.v)),
                                      this._settings, strict)))

\* A loop pass that never hands out a penny.
distributeItemNoPenny(this, split, pennies, strict) ==
  Currency(NumberV(JDiv(split, this._precision)), this._settings, strict).v

\* One pass of the loop of distribute: the item pushed, given the pennies left.
distributeItem(this, split, pennies, strict) ==
  Let(Currency(NumberV(JDiv(split, this._precision)), this._settings, strict).v,
      LAMBDA item :
        IF JGtZero(pennies)
        THEN (IF JGeqZero(this.intValue)
              THEN add(item, NumberV(JDiv(Int2Num(1), this._precision)), strict).ret[1]
              ELSE subtract(item, NumberV(JDiv(Int2Num(1), this._precision)), strict).ret[1])
        ELSE item)

\* The loop of distribute: count entries are still to be made.
RECURSIVE distributeLoop(_, _, _, _, _, _)
distributeLoop(this, split, pennies, count, distribution, strict) ==
  IF count = 0 THEN distribution
  ELSE distributeLoop(this, split, JSub(pennies, Int2Num(1)), count - 1,
                      Append(distribution, distributeItem(this, split, pennies, strict)),
                      strict)

\* A distribute whose split is Math.floor for either sign.
distributeFloor(this, count, strict) ==
  Let(MathFloor(JDiv(this.intValue, Int2Num(count))),
      LAMBDA split :
        Outcome("none", this,
                distributeLoop(this, split,
                               MathAbs(JSub(this.intValue, JMul(split, Int2Num(count)))),
                               count, <<>>, strict),
                UndefinedV))

\* distribute(count) for an integer count >= 0 (the loop counts down to 0 and does
\* not end for any other count).
distribute(this, count, strict) ==
  Let(IF JGeqZero(this.intValue)
      THEN MathFloor(JDiv(this.intValue, Int2Num(count)))
      ELSE MathCeil(JDiv(this.intValue, Int2Num(count))),
      LAMBDA split :
        Outcome("none", this,
                distributeLoop(this, split,
                               MathAbs(JSub(this.intValue, JMul(split, Int2Num(count)))),
                               count, <<>>, strict),
                UndefinedV))

WordChars == Digits \cup {"I", "n", "f", "i", "t", "y", "N", "a"}

\* \b after position pos of s, where s[pos] is a digit
WordBoundaryAfter(s, pos) == pos = Len(s) \/ s[pos + 1] \notin WordChars

AllDigits(s, from, to) == \A i \in from..to : s[i] \in Digits

\* The lookahead of groupRegex, (?=(\d{3})+\b), after position i of s.
groupRegex(s, i) ==
  \E m \in 1..Len(s) :
    i + 3 * m <= Len(s) /\ AllDigits(s, i + 1, i + 3 * m) /\ WordBoundaryAfter(s, i + 3 * m)

\* A vedicRegex that groups by three like groupRegex.
vedicRegexByThree(s, i) == groupRegex(s, i)

\* The lookahead of vedicRegex, (?=(\d\d)+\d\b), after position i of s.
vedicRegex(s, i) ==
  \E m \in 1..Len(s) :
    i + 2 * m + 1 <= Len(s) /\ AllDigits(s, i + 1, i + 2 * m + 1)
      /\ WordBoundaryAfter(s, i + 2 * m + 1)

GroupsMatch(groups, s, i) ==
  s[i] \in Digits /\ (IF groups = "vedicRegex" THEN vedicRegex(s, i) ELSE groupRegex(s, i))

\* dollars.replace(groups, '$1' + separator)
RECURSIVE InsertSeparator(_, _, _, _)
InsertSeparator(s, groups, separator, i) ==
  IF i > Len(s) THEN <<>>
  ELSE <<s[i]>> \o (IF GroupsMatch(groups, s, i) THEN <<separator>> ELSE <<>>)
         \o InsertSeparator(s, groups, separator, i + 1)

\* s.replace(/^-/, '')
StripLeadingMinus(s) == IF s # <<>> /\ s[1] = "-" THEN Tail(s) ELSE s

\* format(useSymbol); useSymbol is "undefined", "true" or "false".
format(this, useSymbol) ==
  Let(SplitDot(StripLeadingMinus(toString(this))),
      LAMBDA values :
        ReplaceFirst(
          ReplaceFirst(IF JGeqZero(this.value) THEN this._settings.pattern
                       ELSE this._settings.negativePattern,
                       "!",
                       IF (IF useSymbol = "undefined" THEN this._settings.formatWithSymbol
                           ELSE useSymbol = "true")
                       THEN this._settings.symbol ELSE <<>>),
          "#",
          InsertSeparator(values[1], this._settings.groups, this._settings.separator, 1)
            \o (IF Len(values) > 1 /\ values[2] # <<>>
                THEN <<this._settings.decimal>> \o values[2] ELSE <<>>)))

toJSON(this) == ToNum(this.value)

(***************************************************************************)
(* The inputs the calls are tried on.                                      *)
(***************************************************************************)
OptsSymbol == [symbol |-> <<"$">>, formatWithSymbol |-> TRUE]
OptsVedic == [useVedic |-> TRUE]
OptsInteger == [precision |-> 0]
OptsStrictInput == [errorOnInvalid |-> TRUE]
OptsNickel == [increment |-> Fin(5, 100)]
OptsKrona ==
  [ decimal |-> ",", symbol |-> <<"k", "r">>, separator |-> ".",
    formatWithSymbol |-> TRUE, precision |-> 3, pattern |-> <<"#", " ", "!">>,
    negativePattern |-> <<"(", "#", " ", "!", ")">> ]

Milli(m) == NumberV(Fin(m, 1000))

\* Spec: small amounts, so that sums, products and quotients stay within MaxAmount.
SpecOpts == {NoOpts, OptsInteger, OptsStrictInput}
SpecValues ==
  {Milli(0), Milli(5), Milli(-5), Milli(30), Milli(-70), Milli(4000),
   StringV(<<"(", ".", "0", "5", ")">>), StringV(<<"a", "b", "c">>), UndefinedV}
SpecOperands ==
  {Milli(-25), Milli(2000), Milli(0), Milli(500), StringV(<<"0", ".", "0", "2">>)}
\* Currency operands: one built with the default options, one with other options.
OperandObjects == {<<Milli(20), NoOpts>>, <<Milli(3000), OptsInteger>>}

WithinCap(o) == IsFin(o.intValue) => Abs(o.intValue.n) <= MaxAmount * o.intValue.d

\* SpecNew and SpecParse: every short string over Alphabet, numbers in steps of
\* 0.001, two numbers whose scaled value has more than four fractional digits,
\* undefined.
Alphabet == {"1", "5", "-", ".", "(", ")", "a"}
Strings == UNION {[1..n -> Alphabet] : n \in 0..MaxStrLen}
ParseOpts ==
  {NoOpts, OptsStrictInput, OptsInteger, [precision |-> 1],
   [decimal |-> "-", errorOnInvalid |-> TRUE]}
ParseValues ==
  {StringV(s) : s \in Strings} \cup {Milli(m) : m \in (-MaxMilli)..MaxMilli}
    \cup {NumberV(Fin(49999, 10000000)), NumberV(Fin(-49999, 10000000)), UndefinedV}

\* SpecFormat: amounts with up to seven integer digits.
FormatOpts == {NoOpts, OptsSymbol, OptsVedic, OptsInteger, OptsNickel, OptsKrona}
FormatValues ==
  {Milli(0), Milli(4), Milli(-5), Milli(-20), Milli(12340), Milli(-999995),
   Milli(1234500), Milli(-1234500), Milli(123456000), Milli(1234567000)}
UseSymbol == {"undefined", "true", "false"}

(***************************************************************************)
(* The state machine of the Currency class: one object under test (self),  *)
(* the objects the last call returned (ret) and the last call (last).      *)
(***************************************************************************)
Call(op, arg, opts, flag, count, o) ==
  [ opts |-> opts, thrown |-> o.thrown, out |-> o.out, count |-> count, op |-> op,
    arg |-> arg, flag |-> flag ]

NoCall ==
  [ opts |-> NoOpts, thrown |-> "none", out |-> UndefinedV, count |-> 0, op |-> "none",
    arg |-> UndefinedV, flag |-> "" ]

CurInit ==
  /\ strictMode \in BOOLEAN
  /\ self = NoObject
  /\ ret = <<>>
  /\ last = NoCall

\* x = new Currency(value, opts): x is the object under test from now on.
New(value, opts) ==
  \E c \in {Currency(value, opts, strictMode)} :
    /\ self' = IF c.thrown = "none" THEN c.v ELSE self
    /\ ret' = <<>>
    /\ last' = Call("new", value, opts, "", 0, Outcome(c.thrown, self, <<>>, UndefinedV))
    /\ UNCHANGED <<strictMode, events, calls, fired>>

\* A method call on self whose outcome is o.
Method(op, arg, flag, count, o) ==
  /\ self # NoObject
  /\ \A i \in 1..Len(o.ret) : WithinCap(o.ret[i])
  /\ self' = o.self
  /\ ret' = o.ret
  /\ last' = Call(op, arg, NoOpts, flag, count, o)
  /\ UNCHANGED <<strictMode, events, calls, fired>>

\* The operands of a binary method: a number, a decimal string, the receiver itself
\* or another Currency object.
Operands ==
  SpecOperands \cup {CurrencyV(self)}
    \cup {CurrencyV(Currency(x[1], x[2], strictMode).v) : x \in OperandObjects}

Add == \E x \in Operands : Method("add", x, "", 0, add(self, x, strictMode))
Subtract == \E x \in Operands : Method("subtract", x, "", 0, subtract(self, x, strictMode))
Multiply == \E x \in Operands : Method("multiply", x, "", 0, multiply(self, x, strictMode))
Divide == \E x \in Operands : Method("divide", x, "", 0, divide(self, x, strictMode))
Distribute ==
  \E n \in 0..MaxCount :
    Method("distribute", UndefinedV, "", n, distribute(self, n, strictMode))
Format ==
  \E u \in UseSymbol :
    Method("format", UndefinedV, u, 0, Outcome("none", self, <<>>, StringV(format(self, u))))
ToString ==
  Method("toString", UndefinedV, "", 0, Outcome("none", self, <<>>, StringV(toString(self))))
ToJSON ==
  Method("toJSON", UndefinedV, "", 0, Outcome("none", self, <<>>, NumberV(toJSON(self))))

\* The next call is made on one of the objects the last call returned.
Select ==
  \E i \in 1..Len(ret) :
    /\ self' = ret[i]
    /\ ret' = <<>>
    /\ last' = NoCall
    /\ UNCHANGED <<strictMode, events, calls, fired>>

\* parse(value, settings, useRounding), called directly.
Parse(value, opts, useRounding) ==
  /\ last' = Call("parse", value, opts, IF useRounding THEN "true" ELSE "false", 0,
                  Let(parse(value, Assign(defaults, opts), useRounding, strictMode),
                      LAMBDA p : Outcome(p.thrown, self, <<>>, NumberV(p.v))))
  /\ UNCHANGED <<strictMode, self, ret, events, calls, fired>>

NextCurrency ==
  \/ \E v \in SpecValues, o \in SpecOpts :
       WithinCap(Currency(v, o, strictMode).v) /\ New(v, o)
  \/ Add
  \/ Subtract
  \/ Multiply
  \/ Divide
  \/ Distribute
  \/ Format
  \/ ToString
  \/ ToJSON
  \/ Select

\* The call that is about to be made, in SpecNew and SpecParse.
Pending(value, opts, flag) ==
  [ opts |-> opts, thrown |-> "none", out |-> UndefinedV, count |-> 0, op |-> "pending",
    arg |-> value, flag |-> flag ]

NextNew == last.op = "pending" /\ New(last.arg, last.opts)

NextParse == last.op = "pending" /\ Parse(last.arg, last.opts, last.flag = "true")

NextFormat ==
  \/ \E v \in FormatValues, o \in FormatOpts : New(v, o)
  \/ Format
  \/ ToString

(***************************************************************************)
(* The emitter.  A handler is known by its name; what it does when it is   *)
(* invoked is HandlerBody: "once" unregisters itself from the event's      *)
(* type, "h1" and "h2" call nothing.                                       *)
(***************************************************************************)
Types == {"click", "load"}
Handlers == {"h1", "h2", "once"}
TriggerArgs == {[given |-> FALSE, list |-> <<>>], [given |-> TRUE, list |-> <<"x">>]}

OnCall(type, handler) == [op |-> "on", type |-> type, handler |-> handler, argc |-> 2]
OffCall(argc, type, handler) ==
  [op |-> "off", type |-> type, handler |-> handler, argc |-> argc]

HandlerBody(h, type) ==
  IF h = "once" THEN <<OffCall(2, type, "once")>> ELSE <<>>

\* Emitter(): events = {}
Emitter == [t \in {} |-> <<>>]

\* An on that puts the handler in front of the list.
onUnshift(ev, type, handler) ==
  IF type \in DOMAIN ev
  THEN [ev EXCEPT ![type] = <<handler>> \o @]
  ELSE [t \in DOMAIN ev \cup {type} |-> IF t = type THEN <<handler>> ELSE ev[t]]

on(ev, type, handler) ==
  IF type \in DOMAIN ev
  THEN [ev EXCEPT ![type] = Append(@, handler)]
  ELSE [t \in DOMAIN ev \cup {type} |-> IF t = type THEN <<handler>> ELSE ev[t]]

\* handlers.indexOf(handler), counted from 1; 0 when it is not there
indexOf(handlers, handler) ==
  LET at == {i \in 1..Len(handlers) : handlers[i] = handler}
  IN  IF at = {} THEN 0 ELSE CHOOSE i \in at : \A j \in at : i <= j

\* handlers.splice(i - 1, 1)
splice(handlers, i) == SubSeq(handlers, 1, i - 1) \o SubSeq(handlers, i + 1, Len(handlers))

_offByHandler(ev, type, handler) ==
  IF type \notin DOMAIN ev THEN ev
  ELSE Let(indexOf(ev[type], handler),
           LAMBDA i : IF i > 0 THEN [ev EXCEPT ![type] = splice(@, i)] ELSE ev)

_offByType(ev, type) == [t \in DOMAIN ev \ {type} |-> ev[t]]

_offAll(ev) == Emitter

\* off(), off(type), off(type, handler)
off(ev, argc, type, handler) ==
  IF argc = 0 THEN _offAll(ev)
  ELSE IF argc = 1 THEN _offByType(ev, type)
  ELSE _offByHandler(ev, type, handler)

ApplyCall(ev, c) ==
  IF c.op = "on" THEN on(ev, c.type, c.handler) ELSE off(ev, c.argc, c.type, c.handler)

\* The calls a running handler makes.  d is the dispatch in progress: the emitter's
\* events, the array forEach walks (arr) and whether events[type] still is that
\* array object (attached): delete and _offAll leave the array itself as it is.
RECURSIVE RunHandler(_, _, _)
RunHandler(d, type, body) ==
  IF body = <<>> THEN d
  ELSE Let(ApplyCall(d.events, Head(body)),
           LAMBDA ev :
             RunHandler([events |-> ev,
                         arr |-> IF d.attached /\ type \in DOMAIN ev THEN ev[type]
                                 ELSE d.arr,
                         attached |-> d.attached /\ type \in DOMAIN ev],
                        type, Tail(body)))

\* handlers.forEach(handler => handler.apply(null, args)): index k runs up to the
\* length the array had when forEach began, over the array as it is when k is reached.
RECURSIVE forEach(_, _, _, _, _, _)
forEach(d, type, k, len, invoked, made) ==
  IF k > len THEN [events |-> d.events, invoked |-> invoked, made |-> made]
  ELSE IF k > Len(d.arr) THEN forEach(d, type, k + 1, len, invoked, made)
  ELSE forEach(RunHandler(d, type, HandlerBody(d.arr[k], type)), type, k + 1, len,
               Append(invoked, d.arr[k]), made \o HandlerBody(d.arr[k], type))

\* _dispatch(event, args): the events afterwards, the handlers invoked in order,
\* the argument list each received, the calls the handlers made, the value returned.
_dispatch(ev, type, args) ==
  IF type \notin DOMAIN ev
  THEN [events |-> ev, invoked |-> <<>>, made |-> <<>>, passed |-> <<>>,
        returned |-> "undefined"]
  ELSE Let(forEach([events |-> ev, arr |-> ev[type], attached |-> TRUE], type, 1,
                   Len(ev[type]), <<>>, <<>>),
           LAMBDA r :
             [events |-> r.events, invoked |-> r.invoked, made |-> r.made,
              passed |-> <<[type |-> type]>> \o (IF args.given THEN args.list ELSE <<>>),
              returned |-> "this"])

\* new EventFunc(type)
EventFunc(type) == [type |-> type, isEventFunc |-> TRUE]

\* trigger(event, args): event is a type name or an EventFunc made from one.
trigger(ev, event, args) ==
  _dispatch(ev, (IF event.isEventFunc THEN event ELSE EventFunc(event.type)).type, args)

NoTrigger ==
  [ op |-> "none", type |-> "", invoked |-> <<>>, made |-> <<>>,
    args |-> [given |-> FALSE, list |-> <<>>], passed |-> <<>>,
    returned |-> "undefined", before |-> Emitter ]

EmInit ==
  /\ events = Emitter
  /\ calls = <<>>
  /\ fired = NoTrigger

On ==
  \E t \in Types, h \in Handlers :
    /\ Len(calls) < MaxCalls
    /\ events' = on(events, t, h)
    /\ calls' = Append(calls, OnCall(t, h))
    /\ fired' = NoTrigger
    /\ UNCHANGED curVars

\* off(), off(t) and off(t, h); the arguments a call leaves out are written as
\* "click" and "h1".
Off ==
  \E n \in 0..2, t \in Types, h \in Handlers :
    /\ Len(calls) < MaxCalls
    /\ n < 2 => h = "h1"
    /\ n < 1 => t = "click"
    /\ events' = off(events, n, t, h)
    /\ calls' = Append(calls, OffCall(n, t, h))
    /\ fired' = NoTrigger
    /\ UNCHANGED curVars

Trigger ==
  \E t \in Types, w \in BOOLEAN, a \in TriggerArgs :
    \E d \in {trigger(events, [type |-> t, isEventFunc |-> w], a)} :
      /\ Len(calls) + Len(d.made) <= MaxCalls
      /\ events' = d.events
      /\ calls' = calls \o d.made
      /\ fired' = [ op |-> "trigger", type |-> t, invoked |-> d.invoked, made |-> d.made,
                    args |-> a, passed |-> d.passed, returned |-> d.returned,
                    before |-> events ]
      /\ UNCHANGED curVars

NextEmitter ==
  \/ On
  \/ Off
  \/ Trigger

(***************************************************************************)
(* Specifications.                                                         *)
(***************************************************************************)
Init == CurInit /\ EmInit

\* The Currency class under arithmetic and distribution on small amounts.
Spec == Init /\ [][NextCurrency]_vars

\* The constructor on strings, numbers and undefined.
InitNew ==
  /\ strictMode \in BOOLEAN
  /\ self = NoObject
  /\ ret = <<>>
  /\ last \in {Pending(v, o, "") : v \in ParseValues, o \in ParseOpts}
  /\ EmInit

SpecNew == InitNew /\ [][NextNew]_vars

\* parse on strings, numbers and undefined, with and without rounding.
InitParse ==
  /\ strictMode \in BOOLEAN
  /\ self = NoObject
  /\ ret = <<>>
  /\ last \in {Pending(v, o, r) : v \in ParseValues, o \in ParseOpts, r \in {"true", "false"}}
  /\ EmInit

SpecParse == InitParse /\ [][NextParse]_vars

\* format and toString on amounts with many digits.
SpecFormat == Init /\ [][NextFormat]_vars

\* The emitter.
SpecEmitter == Init /\ [][NextEmitter]_vars

(***************************************************************************)
(* The claims.                                                             *)
(***************************************************************************)
Objects == {self} \cup {ret[i] : i \in 1..Len(ret)}

RECURSIVE SumIntValues(_)
SumIntValues(objs) ==
  IF objs = <<>> THEN 0 ELSE Head(objs).intValue.n + SumIntValues(Tail(objs))

DistributeDone == last.op = "distribute" /\ IsInteger(self.intValue)

\* C1: distribute(n) on a value with an integer scaledAmount returns exactly n values,
\* each with an integer scaledAmount, and for n > 0 their scaledAmounts sum to the
\* receiver's; distribute(0) returns the empty sequence.
C1_DistributeConserves ==
  DistributeDone =>
    /\ Len(ret) = last.count
    /\ \A i \in 1..Len(ret) : IsInteger(ret[i].intValue)
    /\ last.count > 0 => SumIntValues(ret) = self.intValue.n
    /\ last.count = 0 => ret = <<>>

C1_Witness ==
  /\ DistributeDone
  /\ last.count = 3
  /\ self.intValue = Int2Num(-7)
  /\ Len(ret) = 3

\* The share and the remainder as the claim C7 words them.
Share(A, n) == IF A >= 0 THEN A \div n ELSE -((-A) \div n)
Remainder(A, n) == Abs(A - Share(A, n) * n)

\* C7: for scaledAmount A and count n > 0 the entries are, in order, share + 1
\* (A >= 0) or share - 1 (A < 0) for the first r entries and share for the other
\* n - r, with share = floor(A / n) if A >= 0 else ceil(A / n) and
\* r = |A - share * n|; so r < n, two entries differ by at most one unit and no
\* entry has the sign opposite to A's.
C7_DistributeShares ==
  (DistributeDone /\ last.count > 0) =>
    LET A == self.intValue.n
        n == last.count
        share == Share(A, n)
        r == Remainder(A, n)
    IN  /\ Len(ret) = n
        /\ r < n
        /\ \A i \in 1..Len(ret) :
             ret[i].intValue =
               Int2Num(IF i <= r THEN (IF A >= 0 THEN share + 1 ELSE share - 1) ELSE share)
        /\ \A i, j \in 1..Len(ret) : Abs(ret[i].intValue.n - ret[j].intValue.n) <= 1
        /\ \A i \in 1..Len(ret) :
             IF A >= 0 THEN ret[i].intValue.n >= 0 ELSE ret[i].intValue.n <= 0

C7_Witness ==
  /\ DistributeDone
  /\ last.count = 3
  /\ self.intValue = Int2Num(8)
  /\ ret[1].intValue = Int2Num(3)
  /\ ret[3].intValue = Int2Num(2)

\* Currency values built with the settings of the object under test.
SameSettingsOperands ==
  {Currency(x[1], self._settings, strictMode).v : x \in OperandObjects}

\* a.add(b).add(c) ends without an error in a value whose scaledAmount is the sum.
AddChainSums(a, b, c) ==
  LET r1 == add(a, CurrencyV(b), strictMode)
  IN  /\ r1.thrown = "none"
      /\ LET r2 == add(r1.ret[1], CurrencyV(c), strictMode)
         IN  /\ r2.thrown = "none"
             /\ r2.ret[1].intValue = Int2Num(a.intValue.n + b.intValue.n + c.intValue.n)

\* C2: for Currency values a, b, c built with the same settings, a.add(b).add(c) has
\* scaledAmount a + b + c: add with a Currency operand adds exactly that operand's
\* scaledAmount.
C2_AddCurrencyOperand ==
  /\ (last.op = "add" /\ last.arg.t = "Currency" /\ IsInteger(self.intValue)
        /\ IsInteger(last.arg.obj.intValue) /\ last.arg.obj._settings = self._settings)
       => /\ last.thrown = "none"
          /\ Len(ret) = 1
          /\ ret[1].intValue = Int2Num(self.intValue.n + last.arg.obj.intValue.n)
  /\ (self # NoObject /\ IsInteger(self.intValue))
       => \A b, c \in SameSettingsOperands : AddChainSums(self, b, c)

MethodOps ==
  {"add", "subtract", "multiply", "divide", "distribute", "format", "toString", "toJSON"}

\* C4: a call of add, subtract, multiply, divide, distribute, format, toString or
\* toJSON leaves the receiver (scaledAmount, displayValue, settings) as it was, and
\* every value it returns carries the receiver's settings, whatever the operand's.
C4_ReceiverUnchanged ==
  [][(last'.op \in MethodOps)
       => /\ self' = self
          /\ \A i \in 1..Len(ret') : ret'[i]._settings = self._settings]_vars

C4_Witness ==
  /\ last.op = "multiply"
  /\ last.arg.t = "Currency"
  /\ last.arg.obj._settings # self._settings
  /\ Len(ret) = 1
  /\ IsInteger(ret[1].intValue)
  /\ ret[1].intValue # self.intValue

IsZeroOperand(v) ==
  \/ v.t = "number" /\ v.num = Int2Num(0)
  \/ v.t = "string" /\ Number(v.str) = Int2Num(0)
  \/ v.t = "Currency" /\ v.obj.value = Int2Num(0)

WellFormed(o) ==
  /\ IsInteger(o.intValue)
  /\ o.value = JDiv(o.intValue, pow(o._settings.precision))

\* C9: every Currency value reached by add, subtract, multiply, divide and
\* distribute with number, decimal-string and Currency operands has an integer
\* scaledAmount and a displayValue equal to scaledAmount / 10^precision: a
\* constructed value has, and so has every value a call returns on a receiver that
\* has (a division by zero left aside).
C9_ScaledAmountIsInteger ==
  /\ (last.op = "new" /\ last.thrown = "none" /\ last.arg.t \in {"number", "string"})
       => WellFormed(self)
  /\ (last.op \in {"add", "subtract", "multiply", "divide", "distribute"}
        /\ WellFormed(self)
        /\ (last.arg.t = "Currency" => WellFormed(last.arg.obj))
        /\ ~(last.op = "divide" /\ IsZeroOperand(last.arg)))
       => /\ last.thrown = "none"
          /\ \A i \in 1..Len(ret) : WellFormed(ret[i])

NoDigit(s) == \A i \in 1..Len(s) : s[i] \notin Digits

NewOnStringWithoutNumber ==
  last.op = "new" /\ last.arg.t = "string" /\ NoDigit(last.arg.str)

ErrorOnInvalid(opts) == Has(opts, "errorOnInvalid") /\ opts.errorOnInvalid

\* C3 as amended: constructing a Currency from a string without a digit (such as
\* "abc") ends without an error in a value with scaledAmount 0, whether or not
\* errorOnInvalid is set; the constructor fails with "Invalid Input" exactly when
\* the input is neither a number, a string nor a Currency and errorOnInvalid is set.
C3_StringWithoutNumberIsZero ==
  /\ NewOnStringWithoutNumber => (last.thrown = "none" /\ self.intValue = Int2Num(0))
  /\ last.op = "new" =>
       (last.thrown = "Invalid Input"
          <=> (last.arg.t \notin {"number", "string", "Currency"}
                 /\ ErrorOnInvalid(last.opts)))

C3_Witness ==
  /\ NewOnStringWithoutNumber
  /\ last.arg.str = <<"a", "a", "a">>
  /\ ErrorOnInvalid(last.opts)
  /\ self.intValue = Int2Num(0)

\* C3 as stated: constructing a Currency from a string without a parseable number
\* fails with "Invalid Input" when errorOnInvalid is set and yields scaledAmount 0
\* when it is not.
C3_InvalidStringThrows ==
  NewOnStringWithoutNumber =>
    IF ErrorOnInvalid(last.opts)
    THEN last.thrown = "Invalid Input"
    ELSE last.thrown = "none" /\ self.intValue = Int2Num(0)

\* The integer nearest to v, a half going away from zero.
RoundHalfAwayFromZero(v) ==
  Int2Num(Sgn(v) * ((Abs(v.n) \div v.d)
                      + (IF 2 * (Abs(v.n) % v.d) >= v.d THEN 1 ELSE 0)))

AtMostFourFractionalDigits(v) == 10000 % v.d = 0

\* C8: for a number whose scaled value input * 10^precision has at most 4
\* fractional digits, parse with useRounding returns the integer nearest to the
\* scaled value, a half going away from zero for positive and negative inputs alike,
\* and parse without useRounding returns the scaled value itself.
C8_RoundHalfAwayFromZero ==
  (last.op = "parse" /\ last.arg.t = "number") =>
    LET scaled == JMul(last.arg.num, pow(Assign(defaults, last.opts).precision))
    IN  AtMostFourFractionalDigits(scaled) =>
          /\ last.thrown = "none"
          /\ last.flag = "true" => last.out.num = RoundHalfAwayFromZero(scaled)
          /\ last.flag = "false" => last.out.num = scaled

FormatDone == last.op = "format" /\ IsInteger(self.intValue)

\* The number format() shows: the display value rounded to the increment.
Shown(this) == rounding(this.value, this._settings.increment)

\* |x| * 10^p rounded to an integer, as its whole part and its p-digit fraction.
Units(x, p) ==
  LET whole == Abs(x.n) \div x.d
      rem == Abs(x.n) % x.d
      fr == (2 * rem * (10 ^ p) + x.d) \div (2 * x.d)
  IN  IF fr = 10 ^ p THEN <<whole + 1, 0>> ELSE <<whole, fr>>

RECURSIVE Decimal(_)
Decimal(n) ==
  IF n < 10 THEN <<DigitChars[n + 1]>> ELSE Decimal(n \div 10) \o <<DigitChars[(n % 10) + 1]>>

RECURSIVE Padded(_, _)
Padded(n, p) ==
  IF p = 0 THEN <<>> ELSE Padded(n \div 10, p - 1) \o <<DigitChars[(n % 10) + 1]>>

\* ds with sep between groups of k digits counted from the right.
RECURSIVE GroupEvery(_, _, _)
GroupEvery(ds, k, sep) ==
  IF Len(ds) <= k THEN ds
  ELSE GroupEvery(SubSeq(ds, 1, Len(ds) - k), k, sep) \o <<sep>>
         \o SubSeq(ds, Len(ds) - k + 1, Len(ds))

Grouped(ds, vedic, sep) ==
  IF ~vedic THEN GroupEvery(ds, 3, sep)
  ELSE IF Len(ds) <= 3 THEN ds
  ELSE GroupEvery(SubSeq(ds, 1, Len(ds) - 3), 2, sep) \o <<sep>>
         \o SubSeq(ds, Len(ds) - 2, Len(ds))

\* A pattern with its one '!' and its one '#' filled in.
RECURSIVE Filled(_, _, _)
Filled(pattern, sym, body) ==
  IF pattern = <<>> THEN <<>>
  ELSE (IF Head(pattern) = "!" THEN sym
        ELSE IF Head(pattern) = "#" THEN body
        ELSE <<Head(pattern)>>) \o Filled(Tail(pattern), sym, body)

\* What format(useSymbol) is to return; markAlways says whether the decimal mark is
\* there for precision 0 too.
Formatted(this, useSymbol, markAlways) ==
  LET st == this._settings
      u == Units(Shown(this), st.precision)
      withSymbol == IF useSymbol = "undefined" THEN st.formatWithSymbol
                    ELSE useSymbol = "true"
  IN  Filled(IF JGeqZero(this.value) THEN st.pattern ELSE st.negativePattern,
             IF withSymbol THEN st.symbol ELSE <<>>,
             Grouped(Decimal(u[1]), st.groups = "vedicRegex", st.separator)
               \o (IF markAlways \/ st.precision > 0
                   THEN <<st.decimal>> \o Padded(u[2], st.precision) ELSE <<>>))

DollarExample == <<"$", "1", ",", "2", "3", "4", ".", "5", "0">>
VedicExample == <<"1", "2", ",", "3", "4", ",", "5", "6", "7", ".", "0", "0">>

FormatExamples ==
  /\ (self = Currency(Milli(1234500), OptsSymbol, strictMode).v /\ last.flag = "undefined")
       => last.out.str = DollarExample
  /\ (self = Currency(Milli(1234567000), OptsVedic, strictMode).v
        /\ last.flag = "undefined")
       => last.out.str = VedicExample

\* C5 as amended: format() returns the pattern (value >= 0) or negativePattern
\* (value < 0) with '!' replaced by the symbol when useSymbol, or formatWithSymbol
\* if the argument is absent, is true and by the empty string otherwise, and '#'
\* replaced by the unsigned integer digits grouped from the right by the separator
\* (threes, or three then twos with useVedic), followed, when precision > 0, by the
\* decimal mark and exactly precision fractional digits; with precision 0 there is
\* no decimal mark. The two examples of the claim come out as "$1,234.50" and
\* "12,34,567.00".
C5_FormatPattern ==
  FormatDone =>
    /\ last.out.str = Formatted(self, last.flag, FALSE)
    /\ FormatExamples

C5_Witness ==
  /\ FormatDone
  /\ self._settings.groups = "vedicRegex"
  /\ last.out.str = VedicExample

\* C5 as stated: the grouped integer digits are always followed by the decimal mark
\* and exactly precision fractional digits.
C5_DecimalMarkAlways ==
  FormatDone =>
    /\ last.out.str = Formatted(self, last.flag, TRUE)
    /\ FormatExamples

RECURSIVE RemoveEarliest(_, _)
RemoveEarliest(hs, h) ==
  IF hs = <<>> THEN <<>>
  ELSE IF Head(hs) = h THEN Tail(hs)
  ELSE <<Head(hs)>> \o RemoveEarliest(Tail(hs), h)

\* The registrations of a type that are current after a history of on and off calls.
RECURSIVE Registered(_, _)
Registered(history, type) ==
  IF history = <<>> THEN <<>>
  ELSE LET before == Registered(SubSeq(history, 1, Len(history) - 1), type)
           c == history[Len(history)]
       IN  IF c.op = "on" THEN (IF c.type = type THEN Append(before, c.handler) ELSE before)
           ELSE IF c.argc = 0 THEN <<>>
           ELSE IF c.type # type THEN before
           ELSE IF c.argc = 1 THEN <<>>
           ELSE RemoveEarliest(before, c.handler)

\* A trigger whose handlers made no on or off call: calls is the history before it.
QuietTrigger == fired.op = "trigger" /\ fired.made = <<>>

Count(hs, h) == Cardinality({i \in 1..Len(hs) : hs[i] = h})

\* C10: when a handler calls off(type, h) or on(type, h) while trigger(type) is
\* dispatching, every other handler registered for the type when trigger was called
\* is still invoked exactly once per registration in that dispatch.
C10_DispatchUnderMutation ==
  (fired.op = "trigger" /\ fired.made # <<>> /\ fired.type \in DOMAIN fired.before) =>
    \A h \in Handlers :
      (\A i \in 1..Len(fired.made) : fired.made[i].handler # h)
        => Count(fired.invoked, h) = Count(fired.before[fired.type], h)

====
